---- MODULE Spec2Model ----
(***************************************************************************)
(* A model of the job search agent: the history store (src/src/storage.py), *)
(* the filter/rank engine (src/src/processor.py), the digest sender's       *)
(* result (src/src/notifier.py) and the run of main() (src/src/main.py).    *)
(*                                                                         *)
(* Strings whose characters the code inspects (titles, locations and the   *)
(* keywords) are sequences of one-character strings; strings the code only *)
(* compares or copies (ids, urls, company names) are TLA+ strings.         *)
(***************************************************************************)
EXTENDS Integers, Sequences, FiniteSets, TLC

(* ----------------------------- bounds ---------------------------------- *)

\* The clock takes the values 0..MaxClock.
MaxClock == 1

\* The longest job list handed to an operation of the history store.
MaxJobs == 2

\* The longest job list one run of main() fetches.
MaxFetch == 1

\* The longest job list handed to filter_jobs, and the longest keyword list.
MaxFilterJobs == 2

\* The longest list handed to deduplicate and sort_by_location_then_date.
MaxRankJobs == 3

(* ----------------------------- strings --------------------------------- *)

UpperChars ==
    <<"A","B","C","D","E","F","G","H","I","J","K","L","M",
      "N","O","P","Q","R","S","T","U","V","W","X","Y","Z">>

LowerChars ==
    <<"a","b","c","d","e","f","g","h","i","j","k","l","m",
      "n","o","p","q","r","s","t","u","v","w","x","y","z">>

\* str.lower() on one character.
LowerChar(c) ==
    IF \E i \in 1..Len(UpperChars) : UpperChars[i] = c
    THEN LowerChars[CHOOSE i \in 1..Len(UpperChars) : UpperChars[i] = c]
    ELSE c

\* str.lower()
Lower(s) == [i \in 1..Len(s) |-> LowerChar(s[i])]

\* Python's `sub in s` on strings: sub occurs in s as a contiguous run.
Contains(sub, s) ==
    \E i \in 0..(Len(s) - Len(sub)) : SubSeq(s, i + 1, i + Len(sub)) = sub

\* any(keyword in text for keyword in keywords)
AnyKeywordIn(keywords, text) ==
    \E k \in 1..Len(keywords) : Contains(keywords[k], text)

(* -------------------------- configuration ------------------------------ *)

TITLE_INCLUDE_KEYWORDS ==
    << <<"g","l"," ","a","c","c","o","u","n","t","a","n","t">>,
       <<"g","e","n","e","r","a","l"," ","l","e","d","g","e","r">>,
       <<"s","t","a","f","f"," ","a","c","c","o","u","n","t","a","n","t">>,
       <<"s","e","n","i","o","r"," ","a","c","c","o","u","n","t","a","n","t">>,
       <<"c","o","r","p","o","r","a","t","e"," ","a","c","c","o","u","n","t","a","n","t">>,
       <<"f","i","n","a","n","c","i","a","l"," ","a","c","c","o","u","n","t","a","n","t">>,
       <<"a","c","c","o","u","n","t","a","n","t">>,
       <<"a","c","c","o","u","n","t","i","n","g"," ","a","n","a","l","y","s","t">>,
       <<"s","e","c"," ","r","e","p","o","r","t","i","n","g">>,
       <<"f","i","n","a","n","c","i","a","l"," ","r","e","p","o","r","t","i","n","g">>,
       <<"t","e","c","h","n","i","c","a","l"," ","a","c","c","o","u","n","t","i","n","g">> >>
TITLE_EXCLUDE_KEYWORDS ==
    << <<"m","a","n","a","g","e","r">>,
       <<"d","i","r","e","c","t","o","r">>,
       <<"h","e","a","d"," ","o","f">>,
       <<"v","p">>,
       <<"v","i","c","e"," ","p","r","e","s","i","d","e","n","t">>,
       <<"c","o","n","t","r","o","l","l","e","r">>,
       <<"c","h","i","e","f">>,
       <<"l","e","a","d">>,
       <<"p","r","i","n","c","i","p","a","l">>,
       <<"c","f","o">>,
       <<"a","c","c","o","u","n","t","s"," ","r","e","c","e","i","v","a","b","l","e">>,
       <<"p","a","y","r","o","l","l">>,
       <<"t","a","x"," ","a","c","c","o","u","n","t","a","n","t">>,
       <<"t","a","x"," ","a","n","a","l","y","s","t">>,
       <<"b","i","l","l","i","n","g">>,
       <<"c","o","l","l","e","c","t","i","o","n","s">>,
       <<"c","r","e","d","i","t"," ","a","n","a","l","y","s","t">>,
       <<"a","c","c","o","u","n","t","s"," ","p","a","y","a","b","l","e"," ","m","a","n","a","g","e","r">>,
       <<"s","o","f","t","w","a","r","e"," ","e","n","g","i","n","e","e","r">>,
       <<"p","r","o","d","u","c","t">>,
       <<"d","a","t","a"," ","e","n","g","i","n","e","e","r">> >>
LOCATION_KEYWORDS ==
    << <<"s","a","n"," ","f","r","a","n","c","i","s","c","o">>,
       <<"s","f">>,
       <<"r","e","m","o","t","e">>,
       <<"h","y","b","r","i","d">>,
       <<"a","n","y","w","h","e","r","e">>,
       <<"w","o","r","k"," ","f","r","o","m"," ","h","o","m","e">>,
       <<"w","f","h">> >>
LOCATION_PRIORITY ==
    << [keyword |-> <<"s","a","n"," ","f","r","a","n","c","i","s","c","o">>, priority |-> 1],
       [keyword |-> <<"s","f">>, priority |-> 1],
       [keyword |-> <<"r","e","m","o","t","e">>, priority |-> 2],
       [keyword |-> <<"w","o","r","k"," ","f","r","o","m"," ","h","o","m","e">>, priority |-> 2],
       [keyword |-> <<"w","f","h">>, priority |-> 2],
       [keyword |-> <<"a","n","y","w","h","e","r","e">>, priority |-> 2],
       [keyword |-> <<"h","y","b","r","i","d">>, priority |-> 2] >>


(* ------------------------------ jobs ----------------------------------- *)

\* posted_at values. "none" is None, "empty" is "", "garbage" is a string
\* datetime.fromisoformat rejects (Lever's str(createdAt), a number of
\* milliseconds, is one), "iso" is an ISO-8601 string (with or without the
\* trailing Z) that denotes the instant `secs` seconds after the Unix epoch,
\* and half a second more when `frac` is set.
NoDate == [form |-> "none", secs |-> 0, frac |-> FALSE]

EmptyDate == [form |-> "empty", secs |-> 0, frac |-> FALSE]

GarbageDate == [form |-> "garbage", secs |-> 0, frac |-> FALSE]

IsoDate(secs) == [form |-> "iso", secs |-> secs, frac |-> FALSE]

IsoDateFrac(secs) == [form |-> "iso", secs |-> secs, frac |-> TRUE]

\* The Job dataclass (the department, which only the printed report and the
\* rendered digest read, is left out).
Job(id, title, company, location, url, posted_at) ==
    [id |-> id, title |-> title, company |-> company,
     location |-> location, url |-> url, posted_at |-> posted_at]

\* {job.id for job in jobs}
IdsOf(jobs) == {jobs[i].id : i \in 1..Len(jobs)}

\* All sequences over S of length at most n.
SeqsUpTo(S, n) == UNION {[1..k -> S] : k \in 0..n}

(* ------------------------- filter/rank engine -------------------------- *)

\* An optional constructor argument: None, or a list of keywords.
NoneArg == [is_none |-> TRUE, list |-> << >>]

ListArg(l) == [is_none |-> FALSE, list |-> l]

\* Python's `arg or default`: None and the empty list are both falsy.
OrDefault(arg, default) ==
    IF arg.is_none \/ arg.list = << >> THEN default ELSE arg.list

\* [k.lower() for k in keywords]
LowerAll(keywords) == [i \in 1..Len(keywords) |-> Lower(keywords[i])]

\* JobProcessor.__init__
JobProcessor(include_keywords, exclude_keywords, location_keywords) ==
    [include_keywords |->
         LowerAll(OrDefault(include_keywords, TITLE_INCLUDE_KEYWORDS)),
     exclude_keywords |->
         LowerAll(OrDefault(exclude_keywords, TITLE_EXCLUDE_KEYWORDS)),
     location_keywords |->
         LowerAll(OrDefault(location_keywords, LOCATION_KEYWORDS))]

_matches_title_include(self, title) ==
    AnyKeywordIn(self.include_keywords, Lower(title))

_matches_title_exclude(self, title) ==
    AnyKeywordIn(self.exclude_keywords, Lower(title))

_matches_location(self, location) ==
    IF location = << >>
    THEN FALSE
    ELSE AnyKeywordIn(self.location_keywords, Lower(location))

_matches_criteria(self, job) ==
    /\ _matches_title_include(self, job.title)
    /\ ~_matches_title_exclude(self, job.title)
    /\ _matches_location(self, job.location)

filter_jobs(self, jobs) ==
    SelectSeq(jobs, LAMBDA job : _matches_criteria(self, job))

RECURSIVE DedupFrom(_, _, _)
\* The loop of deduplicate from position i on, with seen_urls as given.
DedupFrom(jobs, i, seen_urls) ==
    IF i > Len(jobs)
    THEN << >>
    ELSE IF jobs[i].url \notin seen_urls
         THEN <<jobs[i]>> \o DedupFrom(jobs, i + 1, seen_urls \cup {jobs[i].url})
         ELSE DedupFrom(jobs, i + 1, seen_urls)

\* A deduplicate that drops nothing.
deduplicate_none(jobs) == jobs

deduplicate(jobs) == DedupFrom(jobs, 1, {})

\* A loop that keeps the priority of the last keyword found.
min_last(best_priority, priority) == priority

\* Python's min of two integers.
min(best_priority, priority) ==
    IF priority < best_priority THEN priority ELSE best_priority

RECURSIVE PriorityLoop(_, _, _)
\* The loop over LOCATION_PRIORITY.items() from the i-th item on.
PriorityLoop(location_lower, i, best_priority) ==
    IF i > Len(LOCATION_PRIORITY)
    THEN best_priority
    ELSE PriorityLoop(location_lower, i + 1,
                      IF Contains(LOCATION_PRIORITY[i].keyword, location_lower)
                      THEN min(best_priority, LOCATION_PRIORITY[i].priority)
                      ELSE best_priority)

\* `not location` holds for None and for "".
_get_location_priority(location) ==
    IF location = << >>
    THEN 999
    ELSE PriorityLoop(Lower(location), 1, 999)

\* Called as _date_to_timestamp(job.posted_at or ""): None and "" give 0,
\* and so does a string fromisoformat rejects (ValueError). Else
\* int(dt.timestamp()), and int() rounds towards zero.
_date_to_timestamp(posted_at) ==
    IF posted_at.form = "iso"
    THEN IF posted_at.frac /\ posted_at.secs < 0
         THEN posted_at.secs + 1
         ELSE posted_at.secs
    ELSE 0

\* get_sort_key, as the pair <<location_priority, date_key>>.
get_sort_key(job) ==
    <<_get_location_priority(job.location), 0 - _date_to_timestamp(job.posted_at)>>

\* A comparison that looks at the location priority only.
KeyLessTierOnly(k1, k2) == k1[1] < k2[1]

\* Python's tuple comparison k1 < k2.
KeyLess(k1, k2) == k1[1] < k2[1] \/ (k1[1] = k2[1] /\ k1[2] < k2[2])

RECURSIVE InsertSorted(_, _)
\* job placed after every element whose key is not greater (a stable sort).
InsertSorted(sorted, job) ==
    IF sorted = << >>
    THEN <<job>>
    ELSE IF KeyLess(get_sort_key(job), get_sort_key(Head(sorted)))
         THEN <<job>> \o sorted
         ELSE <<Head(sorted)>> \o InsertSorted(Tail(sorted), job)

RECURSIVE SortFrom(_, _, _)
SortFrom(jobs, i, acc) ==
    IF i > Len(jobs) THEN acc ELSE SortFrom(jobs, i + 1, InsertSorted(acc, jobs[i]))

\* sorted(jobs, key=get_sort_key): stable, ascending.
sort_by_location_then_date(jobs) == SortFrom(jobs, 1, << >>)

\* A slice that keeps the whole list.
TakeAll(list, n) == list

\* Python's list[:n]
Take(list, n) == SubSeq(list, 1, IF Len(list) < n THEN Len(list) ELSE n)

(* ---------------------------- history store ---------------------------- *)

\* The empty dict.
EmptyMap == [id \in {} |-> 0]

\* d with the keys in ids deleted.
Without(d, ids) == [id \in DOMAIN d \ ids |-> d[id]]

\* d[key] = value
Put(d, key, value) == [id \in DOMAIN d \cup {key} |-> IF id = key THEN value ELSE d[id]]

\* The history file. kind is
\*   "absent"     no file at the path
\*   "unreadable" a file open() refuses (IOError)
\*   "empty"      a file of zero bytes
\*   "partial"    a strict prefix of a JSON document
\*   "garbage"    text that is not JSON
\*   "badbytes"   bytes that do not decode as text (UnicodeDecodeError)
\*   "nonobject"  valid JSON whose top level is not an object, such as []
\*   "nojobs"     a JSON object without the key "jobs"
\*   "jobsnull"   a JSON object whose "jobs" is null
\*   "doc"        {"last_updated": ..., "jobs": {...}}
File(kind) == [kind |-> kind, last_updated |-> 0, jobs |-> EmptyMap]

Doc(last_updated, jobs) == [kind |-> "doc", last_updated |-> last_updated, jobs |-> jobs]

\* JobStorage.__init__ and _load: whether an exception leaves the
\* constructor, and seen_jobs after it ("dict": a dict; "none": None).
_load(f) ==
    CASE f.kind = "absent" ->
             [raised |-> FALSE, shape |-> "dict", seen_jobs |-> EmptyMap]
      [] f.kind \in {"unreadable", "empty", "partial", "garbage"} ->
             [raised |-> FALSE, shape |-> "dict", seen_jobs |-> EmptyMap]
      [] f.kind \in {"badbytes", "nonobject"} ->
             [raised |-> TRUE, shape |-> "dict", seen_jobs |-> EmptyMap]
      [] f.kind = "nojobs" ->
             [raised |-> FALSE, shape |-> "dict", seen_jobs |-> EmptyMap]
      [] f.kind = "jobsnull" ->
             [raised |-> FALSE, shape |-> "none", seen_jobs |-> EmptyMap]
      [] f.kind = "doc" ->
             [raised |-> FALSE, shape |-> "dict", seen_jobs |-> f.jobs]

\* An is_new with the test inverted.
is_new_inverted(seen_jobs, job) == job.id \in DOMAIN seen_jobs

is_new(seen_jobs, job) == job.id \notin DOMAIN seen_jobs

filter_new_jobs(seen_jobs, jobs) ==
    SelectSeq(jobs, LAMBDA job : is_new(seen_jobs, job))

\* The record sync_with_current_jobs stores for a job it sees at time t.
HistoryRecord(job, t) ==
    [title |-> job.title, company |-> job.company, url |-> job.url, first_seen |-> t]

\* A sync that never deletes.
closed_jobs_none(seen_jobs, current_jobs) == {}

\* A sync that rebuilds the store from the current jobs.
closed_jobs_all(seen_jobs, current_jobs) == DOMAIN seen_jobs

\* The ids sync_with_current_jobs deletes.
closed_jobs(seen_jobs, current_jobs) ==
    {job_id \in DOMAIN seen_jobs :
        job_id \notin {current_jobs[i].id : i \in 1..Len(current_jobs)}}

\* A loop that writes a record for every current job.
ShouldInsertAlways(seen_jobs, job) == TRUE

\* Whether the "Add new jobs" loop inserts job when it meets it.
ShouldInsert(seen_jobs, job) == job.id \notin DOMAIN seen_jobs

RECURSIVE AddNewFrom(_, _, _, _)
\* The "Add new jobs" loop from position i on; t is what datetime.utcnow()
\* returns (the clock does not advance during one call).
AddNewFrom(seen_jobs, current_jobs, i, t) ==
    IF i > Len(current_jobs)
    THEN seen_jobs
    ELSE IF ShouldInsert(seen_jobs, current_jobs[i])
         THEN AddNewFrom(Put(seen_jobs, current_jobs[i].id,
                             HistoryRecord(current_jobs[i], t)),
                         current_jobs, i + 1, t)
         ELSE AddNewFrom(seen_jobs, current_jobs, i + 1, t)

\* seen_jobs after sync_with_current_jobs(current_jobs), before _save.
sync_with_current_jobs(seen_jobs, current_jobs, t) ==
    AddNewFrom(Without(seen_jobs, closed_jobs(seen_jobs, current_jobs)),
               current_jobs, 1, t)

(* ------------------------------- state --------------------------------- *)

VARIABLES
    file,           \* the history file job_history.json on disk
    now,            \* what datetime.utcnow() returns
    pc,             \* where the run of main() stands ("idle": no process)
    args,           \* the command-line flags of the run
    storage_state,  \* "none" while seen_jobs is None, else "dict"
    seen_jobs,      \* JobStorage.seen_jobs
    data,           \* the document _save is writing
    save_ret,       \* where main() goes on after _save returns
    all_jobs,       \* what fetch_all_jobs returned
    unique_jobs,    \* main()'s unique_jobs
    new_jobs,       \* main()'s new_jobs
    hot_jobs,       \* main()'s hot_jobs
    all_sorted,     \* main()'s all_sorted
    success,        \* what send_digest returned
    exit_code,      \* the exit status of the run (-1 while it has none)
    ended,          \* how the last run ended
    processor,      \* a JobProcessor constructed with arguments
    config,         \* the arguments it was constructed with
    filter_in,      \* the list last handed to filter_jobs
    filtered,       \* what filter_jobs returned for it
    fpc,            \* "new", "built" (constructed) or "filtered"
    rank,           \* the last call of a ranking operation of the engine
    fetch,          \* fetch_all_jobs: the source it stands at, all_jobs so far
    run0,           \* observation: the file and the store when the run began
    saved,          \* observation: the file before _save and the document it writes
    call,           \* observation: the last operation called on the store
    log,            \* observation: the sends and syncs of the run, in order
    told,           \* observation: an id committed after a delivery, open since
    last            \* observation: the dry run that has just returned

procVars == <<pc, args, storage_state, seen_jobs, data, save_ret, all_jobs,
              unique_jobs, new_jobs, hot_jobs, all_sorted, success>>

filterVars == <<processor, config, filter_in, filtered, fpc>>

engineVars == <<filterVars, rank, fetch>>

runObs == <<log, told, last>>

obsVars == <<run0, saved, call, runObs>>

vars == <<file, now, procVars, exit_code, ended, engineVars, obsVars>>

(* --------------------------- the job postings -------------------------- *)

JobA ==
    Job("a", <<"S","e","n","i","o","r"," ","A","c","c","o","u","n","t","a","n","t">>,
        "Figma", <<"R","e","m","o","t","e">>, "u1", IsoDate(2))

\* The posting of JobA after an edit: same id, other title and url.
JobA2 ==
    Job("a", <<"S","t","a","f","f"," ","A","c","c","o","u","n","t","a","n","t">>,
        "Figma", <<"R","e","m","o","t","e">>, "u3", IsoDate(2))

JobB ==
    Job("b", <<"A","c","c","o","u","n","t","i","n","g"," ","M","a","n","a","g","e","r">>,
        "Figma", <<"S","F">>, "u2", IsoDate(1))

\* A posting cross-listed under the url of JobA.
JobC ==
    Job("c", <<"G","L"," ","A","c","c","o","u","n","t","a","n","t">>,
        "Notion", <<"S","F">>, "u1", NoDate)

JobPool == {JobA, JobA2, JobB, JobC}

\* The postings the sources of main() hold.
Postings == {JobA, JobB, JobC}

(* ------------------------------ the clock ------------------------------ *)

\* The readings the clock can show next.
Later(t) == {t, IF t < MaxClock THEN t + 1 ELSE t}

Tick ==
    /\ now < MaxClock
    /\ now' = now + 1
    /\ UNCHANGED <<file, procVars, exit_code, ended, engineVars, obsVars>>

(* ------------------------------- main() -------------------------------- *)

NoCall ==
    [op |-> "none", arg |-> << >>, pre |-> EmptyMap, pre_file |-> File("absent"),
     ret |-> << >>, raised |-> FALSE, t0 |-> 0, max_age |-> 0,
     flag |-> FALSE, repeat |-> FALSE, new_count |-> 0, closed |-> 0]

NoArgs == [dry_run |-> FALSE, no_filter |-> FALSE, reset_history |-> FALSE]

\* No JobProcessor has been constructed with arguments.
NoProcessor ==
    [include_keywords |-> << >>, exclude_keywords |-> << >>, location_keywords |-> << >>]

NoConfig ==
    [include_keywords |-> NoneArg, exclude_keywords |-> NoneArg,
     location_keywords |-> NoneArg]

\* No ranking operation has been called.
NoRank ==
    [op |-> "none", jobs |-> << >>, location |-> << >>, ret |-> << >>,
     priority |-> 0]

\* fetch_all_jobs has not been called.
NoFetch ==
    [at |-> 0, outcomes |-> << >>, all_jobs |-> << >>, status |-> "new"]

\* No id is being followed.
NotTold == ""

\* No dry run has just returned.
NoLast == [dry_ok |-> FALSE, no_filter |-> FALSE, all_jobs |-> << >>]

NotSaved == [active |-> FALSE, old |-> File("absent"), new |-> File("absent")]

\* The files a first run can find at the path.
InitFiles ==
    {File(k) : k \in {"absent", "unreadable", "garbage", "badbytes",
                      "nonobject", "nojobs", "jobsnull"}}

InitCommon ==
    /\ pc = "idle"
    /\ args = NoArgs
    /\ storage_state = "dict"
    /\ seen_jobs = EmptyMap
    /\ data = File("absent")
    /\ save_ret = "done"
    /\ all_jobs = << >>
    /\ unique_jobs = << >>
    /\ new_jobs = << >>
    /\ hot_jobs = << >>
    /\ all_sorted = << >>
    /\ success = FALSE
    /\ exit_code = -1
    /\ ended = "never"
    /\ processor = NoProcessor
    /\ config = NoConfig
    /\ filter_in = << >>
    /\ filtered = << >>
    /\ fpc = "new"
    /\ rank = NoRank
    /\ fetch = NoFetch
    /\ log = << >>
    /\ told = NotTold
    /\ last = NoLast
    /\ run0 = [file |-> File("absent"), seen_jobs |-> EmptyMap, shape |-> "dict"]
    /\ saved = NotSaved
    /\ call = NoCall

Init ==
    /\ file \in InitFiles
    /\ now = 0
    /\ InitCommon

\* The process has ended: its memory is gone.
ProcessGone ==
    /\ pc' = "idle"
    /\ args' = NoArgs
    /\ storage_state' = "dict"
    /\ seen_jobs' = EmptyMap
    /\ data' = File("absent")
    /\ save_ret' = "done"
    /\ all_jobs' = << >>
    /\ unique_jobs' = << >>
    /\ new_jobs' = << >>
    /\ hot_jobs' = << >>
    /\ all_sorted' = << >>
    /\ success' = FALSE

\* Whether a run with the flags a is the run of the dry run noted in l
\* again, now without --dry-run.
FollowsDryRun(l, a) ==
    l.dry_ok /\ ~a.dry_run /\ ~a.reset_history /\ a.no_filter = l.no_filter

\* A run starts, some time after the last one, and main() goes up to the
\* construction of the components: the flags are parsed, JobProcessor(),
\* JobStorage() (which loads the file) and EmailNotifier are built. An
\* exception leaving JobStorage() ends the process with status 1.
StartRun ==
    /\ pc = "idle"
    /\ \E dry_run \in BOOLEAN, no_filter \in BOOLEAN, reset_history \in BOOLEAN :
          args' = [dry_run |-> dry_run, no_filter |-> no_filter,
                   reset_history |-> reset_history]
    /\ now' \in Later(now)
    /\ LET loaded == _load(file)
       IN  /\ seen_jobs' = loaded.seen_jobs
           /\ storage_state' = loaded.shape
           /\ run0' = [file |-> file, seen_jobs |-> loaded.seen_jobs,
                       shape |-> loaded.shape]
           /\ IF loaded.raised
              THEN /\ pc' = "idle"
                   /\ ended' = "raised_load"
                   /\ exit_code' = 1
                   /\ last' = NoLast
              ELSE /\ pc' = IF args'.reset_history THEN "reset" ELSE "fetch"
                   /\ ended' = "running"
                   /\ exit_code' = -1
                   /\ last' = IF FollowsDryRun(last, args') THEN last ELSE NoLast
    /\ data' = File("absent")
    /\ save_ret' = "done"
    /\ all_jobs' = << >>
    /\ unique_jobs' = << >>
    /\ new_jobs' = << >>
    /\ hot_jobs' = << >>
    /\ all_sorted' = << >>
    /\ success' = FALSE
    /\ saved' = NotSaved
    /\ log' = << >>
    /\ UNCHANGED <<file, engineVars, call, told>>

\* _save up to its open(self.storage_path, "w"): the document is built,
\* and open truncates the file (the run goes on to write it) or raises
\* IOError, which _save catches (the run goes on at ret).
SaveOpen(doc, ret) ==
    /\ data' = doc
    /\ saved' = [active |-> TRUE, old |-> file, new |-> doc]
    /\ save_ret' = ret
    /\ \/ /\ file' = File("empty")
          /\ pc' = "save_write"
       \/ /\ file' = file
          /\ pc' = ret

\* --reset-history: storage.seen_jobs = {} and storage._save() up to open.
ResetHistory ==
    /\ pc = "reset"
    /\ seen_jobs' = EmptyMap
    /\ storage_state' = "dict"
    /\ SaveOpen(Doc(now, EmptyMap), "fetch")
    /\ told' = NotTold
    /\ UNCHANGED <<now, args, all_jobs, unique_jobs, new_jobs, hot_jobs,
                   all_sorted, success, exit_code, ended, engineVars, run0,
                   call, log, last>>

\* The rest of _save: json.dump writes the document piece by piece into the
\* buffered file and leaving the with block flushes and closes it, or a
\* write raises IOError, which _save catches, with nothing or a part of the
\* document on disk.
SaveWrite ==
    /\ pc = "save_write"
    /\ \/ /\ file' = data
          /\ told' \in IF save_ret = "done" /\ success /\ ~args.dry_run
                       THEN {told} \cup DOMAIN data.jobs
                       ELSE {told}
       \/ /\ file' \in {file, File("partial")}
          /\ told' = NotTold
    /\ pc' = save_ret
    /\ UNCHANGED <<now, args, storage_state, seen_jobs, data, save_ret, all_jobs,
                   unique_jobs, new_jobs, hot_jobs, all_sorted, success,
                   exit_code, ended, engineVars, run0, saved, call, log, last>>

\* processor = JobProcessor()
DefaultProcessor == JobProcessor(NoneArg, NoneArg, NoneArg)

\* The lists fetch_all_jobs can return.
FetchResults == SeqsUpTo(Postings, MaxFetch)

\* main() from the fetch to the call of send_digest, for a fetch_all_jobs
\* that returns one of `results` or lets an exception of an adapter through,
\* which ends the process. filter_new_jobs on a seen_jobs that is None
\* raises TypeError, which ends the process too. A posting that is not in
\* the fetched list may have been closed at its source since the last run,
\* and is then followed no longer.
FetchAndProcessFrom(results) ==
    /\ pc = "fetch"
    /\ \/ \E fetched \in results :
             LET filtered_jobs == IF args.no_filter
                                  THEN fetched
                                  ELSE filter_jobs(DefaultProcessor, fetched)
                 unique == deduplicate(filtered_jobs)
             IN  IF storage_state = "none"
                 THEN /\ ended' = "raised_filter_new"
                      /\ exit_code' = 1
                      /\ ProcessGone
                      /\ last' = NoLast
                      /\ told' = told
                 ELSE /\ pc' = "send"
                      /\ all_jobs' = fetched
                      /\ unique_jobs' = unique
                      /\ new_jobs' = filter_new_jobs(seen_jobs, unique)
                      /\ all_sorted' = sort_by_location_then_date(unique)
                      /\ hot_jobs' = Take(sort_by_location_then_date(new_jobs'), 5)
                      /\ told' \in IF told \in IdsOf(fetched)
                                    THEN {told}
                                    ELSE {told, NotTold}
                      /\ last' = IF fetched = last.all_jobs THEN last ELSE NoLast
                      /\ UNCHANGED <<args, storage_state, seen_jobs, data,
                                     save_ret, success, ended, exit_code>>
       \/ /\ ended' = "raised_fetch"
          /\ exit_code' = 1
          /\ ProcessGone
          /\ last' = NoLast
          /\ told' = told
    /\ UNCHANGED <<file, now, engineVars, run0, saved, call, log>>

FetchAndProcess == FetchAndProcessFrom(FetchResults)

\* A send_digest that can fail in a dry run too.
SendResultsAny(a) == BOOLEAN

\* What send_digest can return: True in a dry run; else False when no API
\* key is configured, when SendGrid answers with another status than 200,
\* 201 or 202 or when the request raises, and True when SendGrid accepts.
SendResults(a) == IF a.dry_run THEN {TRUE} ELSE BOOLEAN

\* A main() that syncs the store whatever send_digest returned.
CommitsAlways(sent) == TRUE

\* Whether main() goes on to sync the store after send_digest.
CommitsAfter(sent) == sent

\* success = notifier.send_digest(...)
Send ==
    /\ pc = "send"
    /\ success' \in SendResults(args)
    /\ pc' = IF CommitsAfter(success') THEN "sync" ELSE "done"
    /\ log' = Append(log, IF success' THEN "send_true" ELSE "send_false")
    /\ UNCHANGED <<file, now, args, storage_state, seen_jobs, data, save_ret,
                   all_jobs, unique_jobs, new_jobs, hot_jobs, all_sorted,
                   exit_code, ended, engineVars, run0, saved, call, told, last>>

\* storage.sync_with_current_jobs(unique_jobs), with _save up to open.
Sync ==
    /\ pc = "sync"
    /\ seen_jobs' = sync_with_current_jobs(seen_jobs, unique_jobs, now)
    /\ SaveOpen(Doc(now, seen_jobs'), "done")
    /\ log' = Append(log, "sync")
    /\ UNCHANGED <<now, args, storage_state, all_jobs, unique_jobs, new_jobs,
                   hot_jobs, all_sorted, success, exit_code, ended, engineVars,
                   run0, call, told, last>>

\* A main() that always returns 0.
ExitCodeZero(sent) == 0

\* return 0 if success else 1
ExitCode(sent) == IF sent THEN 0 ELSE 1

\* main() returns. A dry run that returns 0 with its history written is
\* noted for the run that follows it.
Finish ==
    /\ pc = "done"
    /\ exit_code' = ExitCode(success)
    /\ ended' = "returned"
    /\ last' = IF args.dry_run /\ success /\ file = data
               THEN [dry_ok |-> TRUE, no_filter |-> args.no_filter,
                     all_jobs |-> all_jobs]
               ELSE NoLast
    /\ ProcessGone
    /\ UNCHANGED <<file, now, engineVars, run0, saved, call, log, told>>

\* The process is killed (or the machine stops) wherever the run stands;
\* while _save writes, a part of the document may have reached the disk.
Crash ==
    /\ pc # "idle"
    /\ file' \in IF pc = "save_write" THEN {file, File("partial")} ELSE {file}
    /\ ended' = "killed"
    /\ ProcessGone
    /\ told' = IF pc = "save_write" THEN NotTold ELSE told
    /\ last' = NoLast
    /\ UNCHANGED <<now, exit_code, engineVars, run0, saved, call, log>>

Next ==
    \/ StartRun
    \/ ResetHistory
    \/ SaveWrite
    \/ FetchAndProcess
    \/ Send
    \/ Sync
    \/ Finish
    \/ Crash

Spec == Init /\ [][Next]_vars

(* ------------------- properties of the run of main() ------------------- *)

\* The id->record mapping a history file holds (none when it is no document).
Contents(f) == IF f.kind = "doc" THEN f.jobs ELSE EmptyMap

\* C1 as stated: in every run in which send_digest returned False, whatever
\* the flags, the store in memory and the contents of the history file are at
\* the end of the run what they were when the run began.
C1_UnchangedOnFailedSend ==
    (pc = "done" /\ ~success) =>
        /\ seen_jobs = run0.seen_jobs
        /\ Contents(file) = Contents(run0.file)

\* C1 amended: in every run without --reset-history in which send_digest
\* returned False, the store in memory and the history file are at the end of
\* the run what they were when the run began.
C1_UnchangedOnFailedSendNoReset ==
    (pc = "done" /\ ~success /\ ~args.reset_history) =>
        /\ seen_jobs = run0.seen_jobs
        /\ file = run0.file

\* A run without --reset-history on a non-empty history finds a new job and
\* send_digest returns False.
C1_Witness ==
    /\ pc = "done"
    /\ ~success
    /\ ~args.reset_history
    /\ run0.seen_jobs # EmptyMap
    /\ new_jobs # << >>

\* C5: from the moment _save is entered, the history file holds the complete
\* document it held before or the complete document _save writes.
C5_AtomicSave == saved.active => file \in {saved.old, saved.new}

\* C6: constructing JobStorage never raises, and when the file is no history
\* document the store starts as the empty mapping.
C6_FailOpenOnRead ==
    /\ ended # "raised_load"
    /\ (pc # "idle" /\ run0.file.kind # "doc") =>
           (run0.shape = "dict" /\ run0.seen_jobs = EmptyMap)

(* ------------------- the operations of the history store --------------- *)

\* The jobs handed to the operations of the store.
StoreJobs == {JobA, JobA2, JobB}

\* JobStorage() where no file is at the path. The operations below are
\* called on a disk that takes every write; what _save leaves behind when
\* a write fails or the process stops is part of the run of main() above.
InitStore ==
    /\ file = File("absent")
    /\ now = 0
    /\ InitCommon

\* is_new(job)
StoreIsNew ==
    /\ \E job \in StoreJobs :
          call' = [NoCall EXCEPT !.op = "is_new", !.arg = <<job>>,
                                 !.pre = seen_jobs, !.pre_file = file,
                                 !.flag = is_new(seen_jobs, job),
                                 !.t0 = now]
    /\ UNCHANGED <<file, now, procVars, exit_code, ended, engineVars, run0, saved, runObs>>

\* filter_new_jobs(jobs)
StoreFilterNew ==
    /\ \E jobs \in SeqsUpTo(StoreJobs, MaxJobs) :
          call' = [NoCall EXCEPT !.op = "filter_new_jobs", !.arg = jobs,
                                 !.pre = seen_jobs, !.pre_file = file,
                                 !.ret = filter_new_jobs(seen_jobs, jobs),
                                 !.t0 = now]
    /\ UNCHANGED <<file, now, procVars, exit_code, ended, engineVars, run0, saved, runObs>>

\* sync_with_current_jobs(current_jobs), _save included.
StoreSync ==
    /\ \E current_jobs \in SeqsUpTo(StoreJobs, MaxJobs) :
          LET kept == Without(seen_jobs, closed_jobs(seen_jobs, current_jobs))
              synced == sync_with_current_jobs(seen_jobs, current_jobs, now)
          IN  /\ seen_jobs' = synced
              /\ file' = Doc(now, synced)
              /\ call' = [NoCall EXCEPT
                             !.op = "sync", !.arg = current_jobs,
                             !.pre = seen_jobs, !.pre_file = file,
                             !.t0 = now,
                             !.repeat = (call.op = "sync" /\ call.arg = current_jobs),
                             !.closed = Cardinality(closed_jobs(seen_jobs, current_jobs)),
                             !.new_count = Cardinality(DOMAIN synced \ DOMAIN kept)]
    /\ UNCHANGED <<now, pc, args, storage_state, data, save_ret, all_jobs,
                   unique_jobs, new_jobs, hot_jobs, all_sorted, success,
                   exit_code, ended, engineVars, run0, saved, runObs>>

\* cleanup(max_age_days): JobStorage defines no such method, so the call
\* raises AttributeError and the store stays as it is.
StoreCleanup ==
    /\ \E max_age_days \in 0..MaxClock :
          call' = [NoCall EXCEPT !.op = "cleanup", !.max_age = max_age_days,
                                 !.pre = seen_jobs, !.pre_file = file,
                                 !.raised = TRUE, !.t0 = now]
    /\ UNCHANGED <<file, now, procVars, exit_code, ended, engineVars, run0, saved, runObs>>

NextStore ==
    \/ Tick
    \/ StoreIsNew
    \/ StoreFilterNew
    \/ StoreSync
    \/ StoreCleanup

SpecStore == InitStore /\ [][NextStore]_vars

(* -------------------- properties of the history store ------------------ *)

\* The ids of the jobs of a list.

\* C2: after sync_with_current_jobs(S) the ids of the store are the ids of S,
\* and every id of S that had no record has one made of the title, company
\* and url of a job of S with that id and of the time of the call.
C2_SyncReconciles ==
    call.op = "sync" =>
        /\ DOMAIN seen_jobs = IdsOf(call.arg)
        /\ \A id \in DOMAIN call.pre \ IdsOf(call.arg) : id \notin DOMAIN seen_jobs
        /\ \A id \in IdsOf(call.arg) \ DOMAIN call.pre :
              \E i \in 1..Len(call.arg) :
                 /\ call.arg[i].id = id
                 /\ seen_jobs[id].title = call.arg[i].title
                 /\ seen_jobs[id].company = call.arg[i].company
                 /\ seen_jobs[id].url = call.arg[i].url
                 /\ seen_jobs[id].first_seen = call.t0

\* A sync of a list that repeats an id has deleted a record and inserted one.
C2_Witness ==
    /\ call.op = "sync"
    /\ call.arg = <<JobA, JobA2>>
    /\ "b" \in DOMAIN call.pre
    /\ "a" \notin DOMAIN call.pre
    /\ "a" \in DOMAIN seen_jobs

\* C3: a sync_with_current_jobs(S) that follows a sync_with_current_jobs(S)
\* inserts nothing, deletes nothing and leaves every record as it was.
C3_SyncIdempotent ==
    (call.op = "sync" /\ call.repeat) =>
        /\ seen_jobs = call.pre
        /\ call.new_count = 0
        /\ call.closed = 0

\* The second of two syncs of the same non-empty list, at a later time.
C3_Witness ==
    /\ call.op = "sync"
    /\ call.repeat
    /\ call.arg # << >>
    /\ \E id \in DOMAIN seen_jobs : seen_jobs[id].first_seen < call.t0

\* C4: sync_with_current_jobs(S) leaves the record of every id that is in
\* the store and in S as it was.
C4_FirstSeenKept ==
    call.op = "sync" =>
        \A id \in DOMAIN call.pre \cap IdsOf(call.arg) : seen_jobs[id] = call.pre[id]

\* The store held a and b; a later sync of the edited posting of a alone has
\* removed b and kept the record of a, first seen earlier.
C4_Witness ==
    /\ call.op = "sync"
    /\ call.arg = <<JobA2>>
    /\ DOMAIN call.pre = {"a", "b"}
    /\ DOMAIN seen_jobs = {"a"}
    /\ seen_jobs["a"].title = JobA.title
    /\ seen_jobs["a"].first_seen < call.t0

\* C7: cleanup(max_age_days) deletes exactly the records first seen more
\* than max_age_days before the call and leaves the others as they were.
C7_CleanupPrunes ==
    call.op = "cleanup" =>
        seen_jobs = [id \in {i \in DOMAIN call.pre :
                                call.t0 - call.pre[i].first_seen <= call.max_age}
                        |-> call.pre[id]]

\* Whether sub is list with the elements at the positions in keep, in order.
IsSelection(sub, list, keep) ==
    \E f \in [1..Len(sub) -> 1..Len(list)] :
       /\ \A i \in 1..Len(sub), j \in 1..Len(sub) : i < j => f[i] < f[j]
       /\ {f[i] : i \in 1..Len(sub)} = keep
       /\ \A i \in 1..Len(sub) : sub[i] = list[f[i]]

\* C8: filter_new_jobs(L) is L restricted, in order, to the positions whose
\* job has no record in the store; is_new(j) says whether j has none; and
\* neither changes the store or the file.
C8_FilterNew ==
    /\ call.op = "filter_new_jobs" =>
          /\ IsSelection(call.ret, call.arg,
                         {i \in 1..Len(call.arg) : call.arg[i].id \notin DOMAIN call.pre})
          /\ seen_jobs = call.pre
          /\ file = call.pre_file
    /\ call.op = "is_new" =>
          /\ call.flag = (call.arg[1].id \notin DOMAIN call.pre)
          /\ seen_jobs = call.pre
          /\ file = call.pre_file

\* filter_new_jobs has dropped the seen first job of a list and kept the
\* unseen second one.
C8_Witness ==
    /\ call.op = "filter_new_jobs"
    /\ Len(call.arg) = 2
    /\ call.arg[1].id \in DOMAIN seen_jobs
    /\ call.ret = <<call.arg[2]>>

(* ----------------------- the filter/rank engine ------------------------ *)

KwAccountant == <<"a","c","c","o","u","n","t","a","n","t">>

KwAnalyst == <<"A","n","a","l","y","s","t">>

KwManager == <<"m","a","n","a","g","e","r">>

KwRemote == <<"r","e","m","o","t","e">>

KwSF == <<"S","F">>

\* The arguments a JobProcessor is constructed with.
IncludeArgs ==
    {NoneArg, ListArg(<< >>), ListArg(<<KwAccountant>>),
     ListArg(<<KwAnalyst, KwAccountant>>)}

ExcludeArgs == {NoneArg, ListArg(<< >>), ListArg(<<KwManager>>)}

LocationArgs == {NoneArg, ListArg(<< >>), ListArg(<<KwRemote, KwSF>>)}

\* Titles: with an include keyword only; with a default exclude keyword
\* ("lead") and an include keyword; with an include and an exclude keyword;
\* with an exclude keyword only.
FilterTitles ==
    {<<"S","e","n","i","o","r"," ","A","c","c","o","u","n","t","a","n","t">>,
     <<"A","c","c","o","u","n","t","a","n","t"," ","L","e","a","d">>,
     <<"A","C","C","O","U","N","T","A","N","T"," ","M","a","n","a","g","e","r">>,
     <<"A","c","c","o","u","n","t","i","n","g"," ","M","a","n","a","g","e","r">>}

FilterLocations ==
    {<< >>, <<"R","e","m","o","t","e">>, <<"B","e","r","l","i","n">>}

FilterJobs ==
    {Job("x", title, "Figma", location, "u", NoDate) :
        title \in FilterTitles, location \in FilterLocations}

InitFilter ==
    /\ file = File("absent")
    /\ now = 0
    /\ InitCommon

\* JobProcessor(include_keywords, exclude_keywords, location_keywords)
Construct ==
    /\ fpc = "new"
    /\ \E inc \in IncludeArgs, exc \in ExcludeArgs, loc \in LocationArgs :
          /\ config' = [include_keywords |-> inc, exclude_keywords |-> exc,
                        location_keywords |-> loc]
          /\ processor' = JobProcessor(inc, exc, loc)
    /\ fpc' = "built"
    /\ UNCHANGED <<file, now, procVars, exit_code, ended, filter_in, filtered, rank,
                   fetch, obsVars>>

\* processor.filter_jobs(jobs)
FilterJobsCall ==
    /\ fpc = "built"
    /\ \E jobs \in SeqsUpTo(FilterJobs, MaxFilterJobs) :
          /\ filter_in' = jobs
          /\ filtered' = filter_jobs(processor, jobs)
    /\ fpc' = "filtered"
    /\ UNCHANGED <<file, now, procVars, exit_code, ended, processor, config, rank,
                   fetch, obsVars>>

NextFilter ==
    \/ Construct
    \/ FilterJobsCall

SpecFilter == InitFilter /\ [][NextFilter]_vars

(* ------------------ properties of the filter/rank engine --------------- *)

\* The keyword list a constructor argument configures: the default when the
\* argument is left out, else the list given.
Configured(arg, default) == IF arg.is_none THEN default ELSE arg.list

\* Whether text, case-folded, contains some keyword of the list.
HasKeyword(keywords, text) ==
    \E k \in 1..Len(keywords) : Contains(Lower(keywords[k]), Lower(text))

\* The predicate of C9 on a job, for configured keyword lists.
Matches(include, exclude, location, job) ==
    /\ HasKeyword(include, job.title)
    /\ ~HasKeyword(exclude, job.title)
    /\ job.location # << >>
    /\ HasKeyword(location, job.location)

\* C9: for every keyword configuration, filter_jobs returns its input
\* restricted, in order, to the jobs whose title contains an include keyword
\* and no exclude keyword and whose non-empty location contains a location
\* keyword.
C9_FilterPredicate ==
    fpc = "filtered" =>
        IsSelection(filtered, filter_in,
                    {i \in 1..Len(filter_in) :
                        Matches(Configured(config.include_keywords, TITLE_INCLUDE_KEYWORDS),
                                Configured(config.exclude_keywords, TITLE_EXCLUDE_KEYWORDS),
                                Configured(config.location_keywords, LOCATION_KEYWORDS),
                                filter_in[i])})

\* The same with the lists the constructed JobProcessor holds in place of
\* the lists it was given: this holds.
FilterPredicateOnHeldLists ==
    fpc = "filtered" =>
        IsSelection(filtered, filter_in,
                    {i \in 1..Len(filter_in) :
                        Matches(processor.include_keywords, processor.exclude_keywords,
                                processor.location_keywords, filter_in[i])})

\* C10: a JobProcessor constructed with include_keywords = [] returns the
\* empty list from filter_jobs.
C10_EmptyIncludeMatchesNothing ==
    (fpc = "filtered" /\ config.include_keywords = ListArg(<< >>)) => filtered = << >>

(* --------------------- the ranking operations -------------------------- *)

LocSF == <<"S","F">>

LocRemote == <<"R","e","m","o","t","e">>

LocNewYork == <<"N","e","w"," ","Y","o","r","k">>

\* Locations: none; of tier 1; of tier 2; with a keyword of tier 2 before
\* one of tier 1; with no keyword; with "sf" inside a word; with the
\* upper-case keyword of tier 1 and a keyword of tier 2 after it.
RankLocations ==
    {<< >>, LocSF, LocRemote,
     <<"R","e","m","o","t","e"," ","-"," ","S","F">>,
     LocNewYork,
     <<"T","r","a","n","s","f","e","r">>,
     <<"S","A","N"," ","F","R","A","N","C","I","S","C","O"," ","(","H","y","b","r","i","d",")">>}

\* The jobs handed to deduplicate: three ids under two urls.
DedupJobs ==
    {Job(id, <<"A">>, "Figma", LocSF, url, NoDate) :
        id \in {"a", "b", "c"}, url \in {"u1", "u2"}}

\* The jobs handed to sort_by_location_then_date.
SortJobs ==
    {Job("s", <<"A">>, "Figma", LocSF, "u", d) :
        d \in {NoDate, GarbageDate, IsoDate(-1), IsoDateFrac(-1),
               IsoDate(0), IsoDate(1), IsoDate(2)}}
    \cup {Job("s", <<"A">>, "Figma", LocRemote, "u", EmptyDate),
          Job("s", <<"A">>, "Figma", LocRemote, "u", IsoDate(2)),
          Job("s", <<"A">>, "Figma", << >>, "u", IsoDate(2))}

InitRank ==
    /\ file = File("absent")
    /\ now = 0
    /\ InitCommon

\* processor.deduplicate(jobs), on a processor that has ranked nothing yet;
\* the ranking operations keep no state from one call to the next.
DeduplicateCall ==
    /\ rank.op = "none"
    /\ \E jobs \in SeqsUpTo(DedupJobs, MaxRankJobs) :
          rank' = [NoRank EXCEPT !.op = "deduplicate", !.jobs = jobs,
                                 !.ret = deduplicate(jobs)]
    /\ UNCHANGED <<file, now, procVars, exit_code, ended, filterVars, fetch, obsVars>>

\* processor._get_location_priority(location)
LocationPriorityCall ==
    /\ rank.op = "none"
    /\ \E location \in RankLocations :
          rank' = [NoRank EXCEPT !.op = "priority", !.location = location,
                                 !.priority = _get_location_priority(location)]
    /\ UNCHANGED <<file, now, procVars, exit_code, ended, filterVars, fetch, obsVars>>

\* processor.sort_by_location_then_date(jobs)
SortCall ==
    /\ rank.op = "none"
    /\ \E jobs \in SeqsUpTo(SortJobs, MaxRankJobs) :
          rank' = [NoRank EXCEPT !.op = "sort", !.jobs = jobs,
                                 !.ret = sort_by_location_then_date(jobs)]
    /\ UNCHANGED <<file, now, procVars, exit_code, ended, filterVars, fetch, obsVars>>

NextRank ==
    \/ DeduplicateCall
    \/ LocationPriorityCall
    \/ SortCall

SpecRank == InitRank /\ [][NextRank]_vars

(* ------------------ properties of the ranking operations --------------- *)

\* C11: deduplicate(L) is L restricted, in order, to the positions that are
\* the first with their url: no two jobs of the output share a url and every
\* url of L is the url of a job of the output.
C11_DeduplicateByUrl ==
    rank.op = "deduplicate" =>
       /\ IsSelection(rank.ret, rank.jobs,
                      {i \in 1..Len(rank.jobs) :
                          \A k \in 1..(i - 1) : rank.jobs[k].url # rank.jobs[i].url})
       /\ \A i \in 1..Len(rank.ret), j \in 1..Len(rank.ret) :
             rank.ret[i].url = rank.ret[j].url => i = j
       /\ {rank.jobs[i].url : i \in 1..Len(rank.jobs)}
             = {rank.ret[i].url : i \in 1..Len(rank.ret)}

\* deduplicate has been given two jobs with one url and two ids, and has
\* returned the first only.
C11_Witness ==
    /\ rank.op = "deduplicate"
    /\ Len(rank.jobs) = 2
    /\ rank.jobs[1].url = rank.jobs[2].url
    /\ rank.jobs[1].id # rank.jobs[2].id
    /\ rank.ret = <<rank.jobs[1]>>

\* The tiers of the keywords of the priority table found in a location.
TiersIn(location) ==
    LET folded == Lower(location)
    IN  {LOCATION_PRIORITY[n].priority :
            n \in {k \in 1..Len(LOCATION_PRIORITY) :
                      Contains(LOCATION_PRIORITY[k].keyword, folded)}}

\* The least of them, 999 where there is none.
LeastTier(location) ==
    LET tiers == TiersIn(location)
    IN  IF tiers = {}
        THEN 999
        ELSE CHOOSE p \in tiers : \A q \in tiers : p <= q

\* C12: _get_location_priority(location) is the least tier of the priority
\* keywords found in the lower-cased location, and 999 for an empty
\* location and for one with no priority keyword.
C12_LeastTier ==
    rank.op = "priority" =>
       /\ rank.priority = LeastTier(rank.location)
       /\ rank.location = << >> => rank.priority = 999
       /\ TiersIn(rank.location) = {} => rank.priority = 999

\* _get_location_priority has returned 1 for a location with keywords of
\* the tiers 1 and 2.
C12_Witness ==
    /\ rank.op = "priority"
    /\ TiersIn(rank.location) = {1, 2}
    /\ rank.priority = 1

\* Whether a and b hold the same jobs, each as often in a as in b.
IsPermutation(a, b) ==
    /\ Len(a) = Len(b)
    /\ \A i \in 1..Len(a) :
          Cardinality({k \in 1..Len(a) : a[k] = a[i]})
             = Cardinality({k \in 1..Len(b) : b[k] = a[i]})

\* The tier and the parsed timestamp of a job.
TierAndTimestamp(job) ==
    <<LeastTier(job.location), _date_to_timestamp(job.posted_at)>>

\* C13: sort_by_location_then_date(L) is a permutation of L, in the order of
\* the tiers, within a tier in the order of the parsed timestamps with the
\* latest first, and in the order of L where tier and timestamp are equal.
C13_SortByTierThenDate ==
    rank.op = "sort" =>
       /\ IsPermutation(rank.ret, rank.jobs)
       /\ \A i \in 1..Len(rank.ret), j \in 1..Len(rank.ret) :
             i < j =>
               LET ki == TierAndTimestamp(rank.ret[i])
                   kj == TierAndTimestamp(rank.ret[j])
               IN  /\ ki[1] <= kj[1]
                   /\ ki[1] = kj[1] => ki[2] >= kj[2]
       /\ \A i \in 1..Len(rank.ret) :
             LET key == TierAndTimestamp(rank.ret[i])
                 same(job) == TierAndTimestamp(job) = key
             IN  SelectSeq(rank.ret, same) = SelectSeq(rank.jobs, same)

\* A Remote job, an older and a newer SF job have been sorted: the newer SF
\* job, the older SF job, the Remote job.
C13_Witness ==
    /\ rank.op = "sort"
    /\ rank.jobs = <<Job("s", <<"A">>, "Figma", LocRemote, "u", IsoDate(2)),
                     Job("s", <<"A">>, "Figma", LocSF, "u", IsoDate(1)),
                     Job("s", <<"A">>, "Figma", LocSF, "u", IsoDate(2))>>
    /\ rank.ret = <<rank.jobs[3], rank.jobs[2], rank.jobs[1]>>

\* C14: in the output of sort_by_location_then_date a job whose posted_at is
\* absent, empty or unparsable stands after every job of its tier whose
\* posted_at parses.
C14_MissingTimestampLast ==
    rank.op = "sort" =>
       \A i \in 1..Len(rank.ret), j \in 1..Len(rank.ret) :
          (/\ LeastTier(rank.ret[i].location) = LeastTier(rank.ret[j].location)
           /\ rank.ret[i].posted_at.form # "iso"
           /\ rank.ret[j].posted_at.form = "iso") => j < i

\* The same for the jobs whose posted_at parses to an instant a second or
\* more after the Unix epoch.
MissingTimestampAfterLaterThanEpoch ==
    rank.op = "sort" =>
       \A i \in 1..Len(rank.ret), j \in 1..Len(rank.ret) :
          (/\ LeastTier(rank.ret[i].location) = LeastTier(rank.ret[j].location)
           /\ rank.ret[i].posted_at.form # "iso"
           /\ rank.ret[j].posted_at.form = "iso"
           /\ rank.ret[j].posted_at.secs >= 1) => j < i

(* ------------------------- the source adapters ------------------------- *)

\* The first two of GREENHOUSE_COMPANIES and the first of ASHBY_COMPANIES,
\* each with the posting its board holds; LEVER_COMPANIES is empty.
GREENHOUSE_COMPANIES ==
    << [vendor |-> "greenhouse", slug |-> "figma", posting |-> JobA],
       [vendor |-> "greenhouse", slug |-> "gusto", posting |-> JobB] >>

ASHBY_COMPANIES ==
    << [vendor |-> "ashby", slug |-> "notion", posting |-> JobC] >>

LEVER_COMPANIES == << >>

\* The sources in the order fetch_all_jobs goes through them.
Sources == GREENHOUSE_COMPANIES \o ASHBY_COMPANIES \o LEVER_COMPANIES

Vendors == {"greenhouse", "ashby", "lever"}

\* What a request can come to. "network" and "timeout": requests.get raises;
\* "http": raise_for_status raises; "notjson": the body is not JSON;
\* "null": the body is the JSON null; "array": a JSON array of job records
\* (what Lever sends); "object": a JSON object whose "jobs" is an array of
\* job records (what Greenhouse and Ashby send); "jobs_null": an object whose
\* "jobs" is null; "bad_records": the vendor's shape with items that are no
\* job records. `jobs` are the jobs the records of the body describe.
Responses(posting) ==
    {[kind |-> k, jobs |-> << >>] :
        k \in {"network", "timeout", "http", "notjson", "null", "jobs_null",
               "bad_records"}}
    \cup {[kind |-> k, jobs |-> l] :
              k \in {"array", "object"}, l \in {<< >>, <<posting>>}}

\* What fetch_jobs does with a response: the jobs it returns, or that an
\* exception leaves it. request_exception says whether the error response.json()
\* raises for a body that is not JSON derives from requests.RequestException
\* (it does since requests 2.27, and is a plain ValueError before).
fetch_jobs(vendor, response, request_exception) ==
    LET returns(jobs) == [raised |-> FALSE, jobs |-> jobs]
        raises == [raised |-> TRUE, jobs |-> << >>]
    IN  CASE response.kind \in {"network", "timeout", "http"} -> returns(<< >>)
          [] response.kind = "notjson" ->
                IF request_exception THEN returns(<< >>) ELSE raises
          [] response.kind = "null" -> raises
          [] response.kind = "bad_records" -> returns(<< >>)
          [] response.kind = "array" ->
                IF vendor = "lever" THEN returns(response.jobs) ELSE raises
          [] response.kind = "object" ->
                IF vendor = "lever" THEN returns(<< >>) ELSE returns(response.jobs)
          [] response.kind = "jobs_null" ->
                IF vendor = "lever" THEN returns(<< >>) ELSE raises

InitFetch ==
    /\ file = File("absent")
    /\ now = 0
    /\ InitCommon

\* fetcher.fetch_jobs() of one adapter, called on its own.
AdapterCall ==
    /\ fetch.status = "new"
    /\ \E vendor \in Vendors, response \in Responses(JobA),
          request_exception \in BOOLEAN :
          LET got == fetch_jobs(vendor, response, request_exception)
          IN  fetch' = [at |-> 0,
                        outcomes |-> <<[vendor |-> vendor, response |-> response]>>,
                        all_jobs |-> got.jobs,
                        status |-> IF got.raised THEN "adapter_raised"
                                   ELSE "adapter_returned"]
    /\ UNCHANGED <<file, now, procVars, exit_code, ended, filterVars, rank, obsVars>>

\* fetch_all_jobs is called.
FetchAllStart ==
    /\ fetch.status = "new"
    /\ fetch' = [at |-> 1, outcomes |-> << >>, all_jobs |-> << >>,
                 status |-> "running"]
    /\ UNCHANGED <<file, now, procVars, exit_code, ended, filterVars, rank, obsVars>>

\* One turn of the loops of fetch_all_jobs: the adapter of the next source
\* is built and asked, and its jobs are appended to all_jobs. An exception
\* that leaves fetch_jobs leaves fetch_all_jobs too.
FetchSource ==
    /\ fetch.status = "running"
    /\ fetch.at <= Len(Sources)
    /\ \E response \in Responses(Sources[fetch.at].posting),
          request_exception \in BOOLEAN :
          LET source == Sources[fetch.at]
              got == fetch_jobs(source.vendor, response, request_exception)
              asked == Append(fetch.outcomes,
                              [vendor |-> source.vendor, response |-> response])
          IN  fetch' = IF got.raised
                       THEN [fetch EXCEPT !.outcomes = asked, !.status = "raised"]
                       ELSE [fetch EXCEPT !.outcomes = asked,
                                          !.at = fetch.at + 1,
                                          !.all_jobs = fetch.all_jobs \o got.jobs]
    /\ UNCHANGED <<file, now, procVars, exit_code, ended, filterVars, rank, obsVars>>

\* return all_jobs
FetchAllReturn ==
    /\ fetch.status = "running"
    /\ fetch.at > Len(Sources)
    /\ fetch' = [fetch EXCEPT !.status = "returned"]
    /\ UNCHANGED <<file, now, procVars, exit_code, ended, filterVars, rank, obsVars>>

NextFetch ==
    \/ AdapterCall
    \/ FetchAllStart
    \/ FetchSource
    \/ FetchAllReturn

SpecFetch == InitFetch /\ [][NextFetch]_vars

(* -------------------- properties of the source adapters ---------------- *)

\* Whether a request with this response has succeeded: the body is of the
\* shape the vendor sends.
Succeeded(outcome) ==
    outcome.response.kind = IF outcome.vendor = "lever" THEN "array" ELSE "object"

RECURSIVE JobsOfSucceeded(_)
\* The jobs of the sources that succeeded, in the order of the sources.
JobsOfSucceeded(outcomes) ==
    IF outcomes = << >>
    THEN << >>
    ELSE (IF Succeeded(Head(outcomes)) THEN Head(outcomes).response.jobs ELSE << >>)
         \o JobsOfSucceeded(Tail(outcomes))

\* C15: whatever a source's request comes to, its adapter's fetch_jobs
\* returns a list (the empty one when the request failed) and raises
\* nothing, and fetch_all_jobs asks every source and returns the jobs of
\* the sources that succeeded, in the order of the sources.
C15_SourceFailureIsolated ==
    /\ fetch.status \notin {"raised", "adapter_raised"}
    /\ fetch.status \in {"returned", "adapter_returned"} =>
          fetch.all_jobs = JobsOfSucceeded(fetch.outcomes)
    /\ fetch.status = "returned" => Len(fetch.outcomes) = Len(Sources)

\* The same where every request fails in the network, times out or is
\* answered with an HTTP error status.
IsolatedOnRequestFailure ==
    (\A i \in 1..Len(fetch.outcomes) :
        fetch.outcomes[i].response.kind \in {"network", "timeout", "http", "object"})
    => C15_SourceFailureIsolated

(* ---------------- properties of the runs of main(), continued ---------- *)

\* The run has ended with an exit status: main() has returned, or an
\* exception has left it.
Exited ==
    /\ pc = "idle"
    /\ ended \in {"returned", "raised_load", "raised_fetch", "raised_filter_new"}

C17_NoRepeatedNotification ==
    pc = "send" =>
       /\ \A i \in 1..Len(new_jobs) : new_jobs[i].id # told
       /\ \A i \in 1..Len(hot_jobs) : hot_jobs[i].id # told

DigestJob(id, title, location, url, posted_at) ==
    Job(id, title, "Figma", location, url, posted_at)

TitleGL == <<"G","L"," ","A","c","c","o","u","n","t","a","n","t">>

TitleStaff == <<"S","t","a","f","f"," ","A","c","c","o","u","n","t","a","n","t">>

TitleManager == <<"A","c","c","o","u","n","t","i","n","g"," ","M","a","n","a","g","e","r">>

\* The postings of two sources. The sixth does not pass the default
\* filter, the seventh is cross-listed under the url of the first.
DigestSource1 ==
    << DigestJob("j1", TitleGL, LocRemote, "v1", IsoDate(1)),
       DigestJob("j2", TitleStaff, LocSF, "v2", IsoDate(1)),
       DigestJob("j3", TitleGL, LocSF, "v3", IsoDate(2)) >>

DigestSource2 ==
    << DigestJob("j4", TitleStaff, LocRemote, "v4", NoDate),
       DigestJob("j5", TitleGL, LocSF, "v5", NoDate),
       DigestJob("j6", TitleManager, LocRemote, "v6", IsoDate(2)),
       DigestJob("j7", TitleStaff, LocSF, "v1", IsoDate(2)) >>

\* What fetch_all_jobs returns where each source answers or fails.
DigestFetchResults ==
    {(IF up[1] THEN DigestSource1 ELSE << >>)
        \o (IF up[2] THEN DigestSource2 ELSE << >>) : up \in [1..2 -> BOOLEAN]}

\* The runs begin late, where the clock of the model stands still: the
\* digest of a run does not depend on the time.
InitDigest ==
    /\ file = File("absent")
    /\ now = MaxClock
    /\ InitCommon

DigestFetchAndProcess == FetchAndProcessFrom(DigestFetchResults)

NextDigest ==
    \/ StartRun
    \/ ResetHistory
    \/ SaveWrite
    \/ DigestFetchAndProcess
    \/ Send
    \/ Sync
    \/ Finish

SpecDigest == InitDigest /\ [][NextDigest]_vars

(* ----------------------- properties of the digest ---------------------- *)

\* The run has composed its digest and has not ended.
DigestComposed ==
    \/ pc \in {"send", "sync", "done"}
    \/ pc = "save_write" /\ save_ret = "done"

\* C18: hot_jobs has min(5, |new_jobs|) jobs, each without a record in the
\* history when the digest is sent and each among all_jobs; all_jobs is a
\* permutation of the deduplicated list; and after the sync of a run whose
\* send succeeded the ids of the history are the ids of all_jobs.
C18_DigestAndHistory ==
    /\ DigestComposed =>
          /\ Len(hot_jobs) = IF Len(new_jobs) < 5 THEN Len(new_jobs) ELSE 5
          /\ \A i \in 1..Len(hot_jobs) :
                \E k \in 1..Len(all_sorted) : all_sorted[k] = hot_jobs[i]
          /\ IsPermutation(all_sorted, unique_jobs)
    /\ pc = "send" =>
          \A i \in 1..Len(hot_jobs) : hot_jobs[i].id \notin DOMAIN seen_jobs
    /\ (DigestComposed /\ log = <<"send_true", "sync">>) =>
          /\ DOMAIN seen_jobs = IdsOf(all_sorted)
          /\ (pc = "done" /\ file = data) => DOMAIN file.jobs = IdsOf(all_sorted)

\* A run has found six new jobs, highlighted five of them and marked all
\* six as seen.
C18_Witness ==
    /\ pc = "done"
    /\ log = <<"send_true", "sync">>
    /\ Len(new_jobs) = 6
    /\ Len(hot_jobs) = 5
    /\ file = data
    /\ \A i \in 1..Len(new_jobs) : new_jobs[i].id \in DOMAIN file.jobs

====
